---- MODULE Spec2Model ----
(***************************************************************************)
(* A model of examples/api/plot_poisson.py: the linearized-exponential     *)
(* curve (lines 91-107) followed by the simulate / standardize / fit /     *)
(* select / predict / score pipeline (lines 115-179).                      *)
(*                                                                         *)
(* Reals are fixed-point integers with four decimal digits: the real x is  *)
(* the integer x * S.  Every numeric routine below is computed, none is    *)
(* the identity, and every intermediate product stays below 2^31.          *)
(***************************************************************************)
EXTENDS Integers, Sequences, FiniteSets, TLC

\* ------------------------------------------------------------------------
\* Fixed-point arithmetic
\* ------------------------------------------------------------------------

\* The fixed-point scale: one unit is 1e-4.
S == 100 * 100

Abs(a) == IF a < 0 THEN -a ELSE a

Sgn(a) == IF a < 0 THEN -1 ELSE 1

\* a * b / S rounded to the nearest unit, for a, b >= 0, by long
\* multiplication in base S.
MulNat(a, b) ==
    LET ah == a \div S
        al == a % S
        bh == b \div S
        bl == b % S
    IN  ah * bh * S + ah * bl + al * bh + ((al * bl + (S \div 2)) \div S)

\* The product of two fixed-point numbers.
Mul(a, b) == Sgn(a) * Sgn(b) * MulNat(Abs(a), Abs(b))

\* n / k rounded to the nearest integer, for n >= 0 and k > 0.
RDiv(n, k) == (n + (k \div 2)) \div k

\* The quotient of two fixed-point numbers (|a| < 2^31 / S).
Div(a, b) == Sgn(a) * Sgn(b) * RDiv(Abs(a) * S, Abs(b))

\* a / k for an integer k > 0.
DivInt(a, k) == Sgn(a) * RDiv(Abs(a), k)

\* sum_{j >= k} of the Taylor series of exp at r, given term = r^(k-1)/(k-1)!.
RECURSIVE ExpSeries(_, _, _)
ExpSeries(r, term, k) ==
    IF term = 0 \/ k > 16 THEN 0
    ELSE term + ExpSeries(r, RDiv(MulNat(term, r), k), k + 1)

\* exp(r) for 0 <= r <= 1.
ExpFrac(r) == ExpSeries(r, S, 1)

\* exp(x) for x >= 0: exp(x - 1) * e.
RECURSIVE ExpNat(_)
ExpNat(x) == IF x <= S THEN ExpFrac(x) ELSE MulNat(ExpNat(x - S), ExpFrac(S))

\* np.exp on a scalar.
Exp(x) == IF x >= 0 THEN ExpNat(x) ELSE Div(S, ExpNat(-x))

\* 2 * atanh(u) = 2 * (u + u^3/3 + u^5/5 + ...), given pw = u^k, for 0 <= u <= 1/3.
RECURSIVE AtanhSeries(_, _, _)
AtanhSeries(u2, pw, k) ==
    IF pw = 0 \/ k > 21 THEN 0
    ELSE RDiv(pw, k) + AtanhSeries(u2, MulNat(pw, u2), k + 2)

\* log(m) for 1 <= m <= 2.
LnMant(m) ==
    LET u == RDiv((m - S) * S, m + S)
    IN  2 * AtanhSeries(MulNat(u, u), u, 1)

\* log(x) for x > 0: halve or double x into [1, 2), counting log(2) each time.
RECURSIVE Ln(_)
Ln(x) ==
    IF x < S THEN Ln(2 * x) - LnMant(2 * S)
    ELSE IF x >= 2 * S THEN Ln(RDiv(x, 2)) + LnMant(2 * S)
    ELSE LnMant(x)

\* np.power(base, y) for base > 0.
Power(base, y) == Exp(Mul(y, Ln(base)))

\* floor(sqrt(n)) for an integer n >= 0, by bisection on [lo, hi).
RECURSIVE ISqrtIn(_, _, _)
ISqrtIn(n, lo, hi) ==
    IF hi - lo <= 1 THEN lo
    ELSE LET mid == (lo + hi) \div 2
         IN  IF mid * mid <= n THEN ISqrtIn(n, mid, hi) ELSE ISqrtIn(n, lo, mid)

\* np.sqrt on a fixed-point v with 0 <= v <= 4: sqrt(v / S) * S = sqrt(v * S).
Sqrt(v) == ISqrtIn(v * S, 0, 2 * S + 1)

\* sum of a sequence of integers.
RECURSIVE Sum(_)
Sum(s) == IF s = <<>> THEN 0 ELSE Head(s) + Sum(Tail(s))

\* ------------------------------------------------------------------------
\* numpy array routines used by the curve
\* ------------------------------------------------------------------------

\* np.linspace(start, stop, num): num evenly spaced points, the last one stop.
Linspace(start, stop, num) ==
    [i \in 1..num |-> IF i = num THEN stop
                      ELSE start + DivInt((i - 1) * (stop - start), num - 1)]

\* The boolean array a > c.
Greater(a, c) == [i \in 1..Len(a) |-> a[i] > c]

\* The boolean array a <= c.
LessEq(a, c) == [i \in 1..Len(a) |-> a[i] <= c]

\* The indices at which a boolean array is True, ascending.
Where(mask) == SelectSeq([i \in 1..Len(mask) |-> i], LAMBDA i : mask[i])

\* a[mask]: the elements of a at the True positions of mask, compressed.
Take(a, mask) ==
    LET idx == Where(mask)
    IN  [k \in 1..Len(idx) |-> a[idx[k]]]

\* a[mask] = vals: the k-th value goes to the k-th True position of mask.
Put(a, mask, vals) ==
    LET idx == Where(mask)
    IN  [i \in 1..Len(a) |->
            IF mask[i] THEN vals[CHOOSE k \in 1..Len(idx) : idx[k] = i] ELSE a[i]]

\* The number of stores each element of an array receives from a[mask] = ...
Stored(stores, mask) ==
    [i \in 1..Len(stores) |-> IF mask[i] THEN stores[i] + 1 ELSE stores[i]]

\* An array object: its elements and, per element, the stores made into it
\* since the object was created.
NewArray(data) == [data |-> data, stores |-> [i \in 1..Len(data) |-> 0]]

\* A copy that is no copy: the same object under a second name (qu = z).
DeepCopyAlias(h, ref) == [heap |-> h, ref |-> ref]

\* deepcopy(obj): a new object on the heap holding a copy of the elements.
DeepCopy(h, ref) == [heap |-> Append(h, NewArray(h[ref].data)), ref |-> Len(h) + 1]

\* z[z > eta] * slope + intercept
LinearBranch(zv, sl, ic) == [k \in 1..Len(zv) |-> Mul(zv[k], sl) + ic]

\* np.expm1 in place of np.exp.
ExpBranchMinusOne(zv) == [k \in 1..Len(zv) |-> Exp(zv[k]) - S]

\* np.exp(z[z <= eta])
ExpBranch(zv) == [k \in 1..Len(zv) |-> Exp(zv[k])]

\* (1 + eta) * slope: the sign of eta slipped.
InterceptOfPlus(e, sl) == Mul(S + e, sl)

\* (1 - eta) * slope
InterceptOf(e, sl) == Mul(S - e, sl)

\* qu[z > eta] = z[z > eta] * slope + intercept, on the heap.
StoreGt(h, zr, qr, e, sl, ic) ==
    LET rhs  == LinearBranch(Take(h[zr].data, Greater(h[zr].data, e)), sl, ic)
        mask == Greater(h[zr].data, e)
    IN  [h EXCEPT ![qr] = [data   |-> Put(h[qr].data, mask, rhs),
                           stores |-> Stored(h[qr].stores, mask)]]

\* qu[z <= eta] = np.exp(z[z <= eta]), on the heap.
StoreLe(h, zr, qr, e) ==
    LET rhs  == ExpBranch(Take(h[zr].data, LessEq(h[zr].data, e)))
        mask == LessEq(h[zr].data, e)
    IN  [h EXCEPT ![qr] = [data   |-> Put(h[qr].data, mask, rhs),
                           stores |-> Stored(h[qr].stores, mask)]]

\* ------------------------------------------------------------------------
\* Program constants and bounds
\* ------------------------------------------------------------------------

\* The number of grid points of z.
NPoints == 100

\* The number of regularization strengths.
NLambda == 10

\* Rows of a design matrix (10000 in the script).
n_samples == 2

\* Columns of a design matrix (100 in the script).
n_features == 1

\* Values a drawn intercept takes.
Beta0Vals == {0, S}

\* Values a drawn coefficient takes (sparse: zero, or uniform in [0, 1)).
BetaVals == {0, S \div 2}

\* Values an entry of a drawn design matrix takes.
XVals == {-S, S}

\* Rows a drawn design matrix is made of.
RowVals(p) == {[j \in 1..p |-> v] : v \in XVals}

\* Counts a Poisson draw takes.
CountVals == {0, 2}

\* ------------------------------------------------------------------------
\* Library routines of the pipeline
\* ------------------------------------------------------------------------

\* np.logspace(start, stop, num, base): base ** linspace(start, stop, num).
Logspace(start, stop, num, base) ==
    LET y == Linspace(start, stop, num)
    IN  [k \in 1..num |-> Power(base, y[k])]

\* seq[key] with Python's indexing: 0-based, negative keys count from the end.
PyIndex(seq, key) == IF key < 0 THEN seq[Len(seq) + key + 1] ELSE seq[key + 1]

\* Column j of a matrix given as a sequence of rows.
Column(X, j) == [i \in 1..Len(X) |-> X[i][j]]

\* The mean of a vector.
Mean(v) == DivInt(Sum(v), Len(v))

\* The population variance of a vector.
Variance(v) ==
    LET mu == Mean(v)
    IN  DivInt(Sum([i \in 1..Len(v) |-> Mul(v[i] - mu, v[i] - mu)]), Len(v))

\* StandardScaler().fit(X): per column the mean and the standard deviation,
\* a zero deviation replaced by 1.
StandardScalerFit(X) ==
    LET p == Len(X[1])
    IN  [fitted |-> TRUE,
         mean_  |-> [j \in 1..p |-> Mean(Column(X, j))],
         scale_ |-> [j \in 1..p |->
                        LET sd == Sqrt(Variance(Column(X, j)))
                        IN  IF sd = 0 THEN S ELSE sd]]

\* scaler.transform(X): (X - mean_) / scale_, column by column.
Transform(sc, X) ==
    [i \in 1..Len(X) |->
        [j \in 1..Len(X[i]) |-> Div(X[i][j] - sc.mean_[j], sc.scale_[j])]]

\* The linearized exponential of the module's opening comment:
\* exp(z) if z <= eta, exp(eta) z + (1 - eta) exp(eta) if z > eta.
Lambda(e, zi) ==
    IF zi <= e THEN Exp(zi) ELSE Mul(Exp(e), zi) + Mul(S - e, Exp(e))

\* z_i = beta0 + sum_j beta_j x_ij
LinearPredictor(b0, b, row) ==
    b0 + Sum([j \in 1..Len(row) |-> Mul(b[j][1], row[j])])

\* GLM(...): an estimator holding its hyperparameters and no fitted path.
NewGLM(args) ==
    [id            |-> 1,
     distr         |-> args.distr,
     alpha         |-> args.alpha,
     max_iter      |-> args.max_iter,
     learning_rate |-> args.learning_rate,
     score_metric  |-> args.score_metric,
     reg_lambda    |-> args.reg_lambda,
     eta           |-> args.eta,
     fit_          |-> <<>>]

\* estimator.simulate(beta0, beta, X): the target vectors a call may return,
\* one Poisson draw per row of X.
Simulate(glm, b0, b, X) == [1..Len(X) -> CountVals]

\* The coefficients a fit may end on.
FitOutcomes(p) ==
    {[beta0 |-> 0, beta |-> [j \in 1..p |-> <<c>>]] : c \in BetaVals}

\* estimator.fit(X, y): the estimator with one fitted model per regularization
\* strength, in the order of reg_lambda; est is what the descent ended on.
Fit(glm, X, y, est) ==
    [glm EXCEPT !.fit_ =
        [k \in 1..Len(glm.reg_lambda) |->
            [reg_lambda |-> glm.reg_lambda[k],
             beta0      |-> est.beta0,
             beta       |-> est.beta]]]

\* estimator[key]: the single fitted model at position key of the path.
GetItem(glm, key) ==
    [glm EXCEPT !.id         = glm.id + 1,
                !.reg_lambda = <<PyIndex(glm.reg_lambda, key)>>,
                !.fit_       = PyIndex(glm.fit_, key)]

\* model.predict(X): the conditional intensity of each row of X.
Predict(mdl, X) ==
    [i \in 1..Len(X) |->
        Lambda(mdl.eta, LinearPredictor(mdl.fit_.beta0, mdl.fit_.beta, X[i]))]

\* model.score(X, y): the values the model's metric may take.
Score(mdl, X, y) ==
    IF mdl.score_metric = "pseudo_R2" THEN {-S, 0, S \div 2, S}
    ELSE {0, S, 3 * S}

\* The first n elements of a sequence (s[:n]).
Slice(s, n) == IF Len(s) <= n THEN s ELSE SubSeq(s, 1, n)

\* One call made by the script: the routine, the receiver's id (0 for none)
\* and the arguments.
Call(fn, obj, X, y, b0, b) ==
    [fn |-> fn, obj |-> obj, X |-> X, y |-> y, b0 |-> b0, b |-> b]

\* ------------------------------------------------------------------------
\* The script
\* ------------------------------------------------------------------------

VARIABLES
    pc,                 \* the statement about to run
    heap,               \* the numpy arrays z and qu refer to
    z, qu,              \* references into heap (0: unbound)
    eta, slope, intercept,
    reg_lambda, glm_poissonexp,
    beta0, beta, Xr, yr, Xt, yt,
    scaler, m, this_model_param, yrhat, ythat,
    printed,            \* what print() wrote
    calls               \* the calls made so far, in order

vars == <<pc, heap, z, qu, eta, slope, intercept, reg_lambda, glm_poissonexp,
          beta0, beta, Xr, yr, Xt, yt, scaler, m, this_model_param, yrhat,
          ythat, printed, calls>>

curveVars == <<heap, z, qu, eta, slope, intercept>>

glmVars == <<reg_lambda, glm_poissonexp, scaler, m, this_model_param>>

dataVars == <<beta0, beta, Xr, yr, Xt, yt>>

outVars == <<yrhat, ythat, printed>>

\* The script with the testing data drawn and simulated after the fit.
OrderSimulateLate ==
    << "linspace", "eta", "deepcopy", "slope", "intercept", "store_gt",
       "store_le", "plot_curve", "reg_lambda", "GLM", "beta0", "beta", "Xr",
       "simulate_r", "scaler_fit", "fit", "Xt", "simulate_t", "getitem",
       "fit_", "predict_r", "predict_t", "plot_pred", "score", "done" >>

\* The statements of the script, in program order.
Order ==
    << "linspace", "eta", "deepcopy", "slope", "intercept", "store_gt",
       "store_le", "plot_curve", "reg_lambda", "GLM", "beta0", "beta", "Xr",
       "simulate_r", "Xt", "simulate_t", "scaler_fit", "fit", "getitem",
       "fit_", "predict_r", "predict_t", "plot_pred", "score", "done" >>

\* The position of a statement in the script.
Pos(p) == CHOOSE k \in 1..Len(Order) : Order[k] = p

\* The statement that follows p.
After(p) == Order[Pos(p) + 1]

\* Whether statement p has run.
Ran(p) == Pos(pc) > Pos(p)

\* An estimator variable not yet bound.
NoGLM == NewGLM([distr |-> "", alpha |-> 0, max_iter |-> 0, learning_rate |-> 0,
                 score_metric |-> "", reg_lambda |-> <<>>, eta |-> 0])

\* A scaler variable not yet bound.
NoScaler == [fitted |-> FALSE, mean_ |-> <<>>, scale_ |-> <<>>]

Init ==
    /\ pc = Order[1]
    /\ heap = <<>>
    /\ z = 0 /\ qu = 0
    /\ eta = 0 /\ slope = 0 /\ intercept = 0
    /\ reg_lambda = <<>>
    /\ glm_poissonexp = NoGLM
    /\ beta0 = <<>> /\ beta = <<>>
    /\ Xr = <<>> /\ yr = <<>> /\ Xt = <<>> /\ yt = <<>>
    /\ scaler = NoScaler
    /\ m = NoGLM
    /\ this_model_param = <<>>
    /\ yrhat = <<>> /\ ythat = <<>>
    /\ printed = <<>>
    /\ calls = <<>>

\* z = np.linspace(0., 10., 100)
MakeGrid ==
    /\ pc = "linspace"
    /\ heap' = Append(heap, NewArray(Linspace(0, 10 * S, NPoints)))
    /\ z' = Len(heap) + 1
    /\ pc' = After(pc)
    /\ UNCHANGED <<qu, eta, slope, intercept, glmVars, dataVars, outVars, calls>>

\* The threshold the script assigns to eta.
CurveEta == 4 * S

\* eta = 4.0
SetEta ==
    /\ pc = "eta"
    /\ eta' = CurveEta
    /\ pc' = After(pc)
    /\ UNCHANGED <<heap, z, qu, slope, intercept, glmVars, dataVars, outVars, calls>>

\* qu = deepcopy(z)
CopyGrid ==
    /\ pc = "deepcopy"
    /\ LET c == DeepCopy(heap, z)
       IN  heap' = c.heap /\ qu' = c.ref
    /\ pc' = After(pc)
    /\ UNCHANGED <<z, eta, slope, intercept, glmVars, dataVars, outVars, calls>>

\* slope = np.exp(eta)
SetSlope ==
    /\ pc = "slope"
    /\ slope' = Exp(eta)
    /\ pc' = After(pc)
    /\ UNCHANGED <<heap, z, qu, eta, intercept, glmVars, dataVars, outVars, calls>>

\* intercept = (1 - eta) * slope
SetIntercept ==
    /\ pc = "intercept"
    /\ intercept' = InterceptOf(eta, slope)
    /\ pc' = After(pc)
    /\ UNCHANGED <<heap, z, qu, eta, slope, glmVars, dataVars, outVars, calls>>

\* qu[z > eta] = z[z > eta] * slope + intercept
AssignGt ==
    /\ pc = "store_gt"
    /\ heap' = StoreGt(heap, z, qu, eta, slope, intercept)
    /\ pc' = After(pc)
    /\ UNCHANGED <<z, qu, eta, slope, intercept, glmVars, dataVars, outVars, calls>>

\* qu[z <= eta] = np.exp(z[z <= eta])
AssignLe ==
    /\ pc = "store_le"
    /\ heap' = StoreLe(heap, z, qu, eta)
    /\ pc' = After(pc)
    /\ UNCHANGED <<z, qu, eta, slope, intercept, glmVars, dataVars, outVars, calls>>

\* plt.plot(z, qu, ...); plt.plot(z, np.exp(z), ...); ...; plt.show()
PlotCurve ==
    /\ pc = "plot_curve"
    /\ calls' = calls
                \o << Call("plot", 0, heap[z].data, heap[qu].data, <<>>, <<>>),
                      Call("plot", 0, heap[z].data, ExpBranch(heap[z].data), <<>>, <<>>) >>
    /\ pc' = After(pc)
    /\ UNCHANGED <<curveVars, glmVars, dataVars, outVars>>

\* The path with its end points exchanged: increasing strengths.
RegLambdaIncreasing == Logspace(Ln(S \div 100), Ln(S \div 2), NLambda, Exp(S))

\* np.logspace(np.log(0.5), np.log(0.01), 10, base=np.exp(1))
RegLambda == Logspace(Ln(S \div 2), Ln(S \div 100), NLambda, Exp(S))

\* reg_lambda = np.logspace(...)
MakeRegLambda ==
    /\ pc = "reg_lambda"
    /\ reg_lambda' = RegLambda
    /\ pc' = After(pc)
    /\ UNCHANGED <<curveVars, glm_poissonexp, scaler, m, this_model_param,
                   dataVars, outVars, calls>>

\* The estimator built to score by deviance.
GLMArgsDeviance ==
    [distr         |-> "poisson",
     alpha         |-> 500,
     max_iter      |-> 1000,
     learning_rate |-> 2000,
     score_metric  |-> "deviance",
     reg_lambda    |-> reg_lambda,
     eta           |-> 4 * S]

\* The estimator built with a threshold other than the curve's.
GLMArgsOtherEta ==
    [distr         |-> "poisson",
     alpha         |-> 500,
     max_iter      |-> 1000,
     learning_rate |-> 2000,
     score_metric  |-> "pseudo_R2",
     reg_lambda    |-> reg_lambda,
     eta           |-> 2 * S]

\* The keyword arguments of the GLM(...) call.
GLMArgs ==
    [distr         |-> "poisson",
     alpha         |-> 500,
     max_iter      |-> 1000,
     learning_rate |-> 2000,
     score_metric  |-> "pseudo_R2",
     reg_lambda    |-> reg_lambda,
     eta           |-> 4 * S]

\* glm_poissonexp = GLM(distr='poisson', ..., reg_lambda=reg_lambda, eta=4.0)
Construct ==
    /\ pc = "GLM"
    /\ glm_poissonexp' = NewGLM(GLMArgs)
    /\ calls' = Append(calls, Call("GLM", 0, <<>>, <<>>, <<>>, <<>>))
    /\ pc' = After(pc)
    /\ UNCHANGED <<curveVars, reg_lambda, scaler, m, this_model_param,
                   dataVars, outVars>>

\* beta0 = np.random.normal(0.0, 1.0, 1)
DrawBeta0 ==
    /\ pc = "beta0"
    /\ \E v \in Beta0Vals : beta0' = <<v>>
    /\ pc' = After(pc)
    /\ UNCHANGED <<curveVars, glmVars, beta, Xr, yr, Xt, yt, outVars, calls>>

\* beta = sps.rand(n_features, 1, 0.1); beta = np.array(beta.todense())
DrawBeta ==
    /\ pc = "beta"
    /\ \E b \in [1..n_features -> {<<c>> : c \in BetaVals}] : beta' = b
    /\ pc' = After(pc)
    /\ UNCHANGED <<curveVars, glmVars, beta0, Xr, yr, Xt, yt, outVars, calls>>

\* The shape given as [n_features, n_samples].
DrawXTransposed == [1..n_features -> RowVals(n_samples)]

\* np.random.normal(0.0, 1.0, [n_samples, n_features]): the matrices drawn.
DrawX == [1..n_samples -> RowVals(n_features)]

\* Xr = np.random.normal(0.0, 1.0, [n_samples, n_features])
DrawXr ==
    /\ pc = "Xr"
    /\ \E X \in DrawX : Xr' = X
    /\ pc' = After(pc)
    /\ UNCHANGED <<curveVars, glmVars, beta0, beta, yr, Xt, yt, outVars, calls>>

\* The arguments of the first simulate call.
SimTrainArgs == [b0 |-> beta0, b |-> beta, X |-> Xr]

\* yr = glm_poissonexp.simulate(beta0, beta, Xr)
SimulateTrain ==
    /\ pc = "simulate_r"
    /\ LET a == SimTrainArgs
       IN  /\ \E y \in Simulate(glm_poissonexp, a.b0, a.b, a.X) : yr' = y
           /\ calls' = Append(calls, Call("simulate", glm_poissonexp.id,
                                          a.X, <<>>, a.b0, a.b))
    /\ pc' = After(pc)
    /\ UNCHANGED <<curveVars, glmVars, beta0, beta, Xr, Xt, yt, outVars>>

\* Xt = np.random.normal(0.0, 1.0, [n_samples, n_features])
DrawXt ==
    /\ pc = "Xt"
    /\ \E X \in DrawX : Xt' = X
    /\ pc' = After(pc)
    /\ UNCHANGED <<curveVars, glmVars, beta0, beta, Xr, yr, yt, outVars, calls>>

\* The arguments of the second simulate call.
SimTestArgs == [b0 |-> beta0, b |-> beta, X |-> Xt]

\* yt = glm_poissonexp.simulate(beta0, beta, Xt)
SimulateTest ==
    /\ pc = "simulate_t"
    /\ LET a == SimTestArgs
       IN  /\ \E y \in Simulate(glm_poissonexp, a.b0, a.b, a.X) : yt' = y
           /\ calls' = Append(calls, Call("simulate", glm_poissonexp.id,
                                          a.X, <<>>, a.b0, a.b))
    /\ pc' = After(pc)
    /\ UNCHANGED <<curveVars, glmVars, beta0, beta, Xr, yr, Xt, outVars>>

\* The matrix the scaler is fitted on.
ScalerFitArg == Xr

\* scaler = StandardScaler().fit(Xr)
FitScaler ==
    /\ pc = "scaler_fit"
    /\ scaler' = StandardScalerFit(ScalerFitArg)
    /\ calls' = Append(calls, Call("StandardScaler.fit", 0, ScalerFitArg,
                                   <<>>, <<>>, <<>>))
    /\ pc' = After(pc)
    /\ UNCHANGED <<curveVars, reg_lambda, glm_poissonexp, m, this_model_param,
                   dataVars, outVars>>

\* The arguments of the fit call.
FitArgs == [X |-> Transform(scaler, Xr), y |-> yr]

\* glm_poissonexp.fit(scaler.transform(Xr), yr)
FitGLM ==
    /\ pc = "fit"
    /\ LET a == FitArgs
       IN  /\ \E est \in FitOutcomes(Len(a.X[1])) :
                  glm_poissonexp' = Fit(glm_poissonexp, a.X, a.y, est)
           /\ calls' = Append(calls, Call("fit", glm_poissonexp.id, a.X, a.y,
                                          <<>>, <<>>))
    /\ pc' = After(pc)
    /\ UNCHANGED <<curveVars, reg_lambda, scaler, m, this_model_param,
                   dataVars, outVars>>

\* The position of the path the script selects.
SelectKey == -1

\* m = glm_poissonexp[-1]
Select ==
    /\ pc = "getitem"
    /\ m' = GetItem(glm_poissonexp, SelectKey)
    /\ calls' = Append(calls, Call("getitem", glm_poissonexp.id, <<>>, <<>>,
                                   <<>>, <<>>))
    /\ pc' = After(pc)
    /\ UNCHANGED <<curveVars, reg_lambda, glm_poissonexp, scaler,
                   this_model_param, dataVars, outVars>>

\* this_model_param = m.fit_
ReadParam ==
    /\ pc = "fit_"
    /\ this_model_param' = <<m.fit_>>
    /\ pc' = After(pc)
    /\ UNCHANGED <<curveVars, reg_lambda, glm_poissonexp, scaler, m, dataVars,
                   outVars, calls>>

\* The argument of the predict call on the training inputs.
PredictTrainArg == Transform(scaler, Xr)

\* yrhat = m.predict(scaler.transform(Xr))
PredictTrain ==
    /\ pc = "predict_r"
    /\ yrhat' = Predict(m, PredictTrainArg)
    /\ calls' = Append(calls, Call("predict", m.id, PredictTrainArg, <<>>,
                                   <<>>, <<>>))
    /\ pc' = After(pc)
    /\ UNCHANGED <<curveVars, glmVars, dataVars, ythat, printed>>

\* The argument of the predict call on the testing inputs.
PredictTestArg == Transform(scaler, Xt)

\* ythat = m.predict(scaler.transform(Xt))
PredictTest ==
    /\ pc = "predict_t"
    /\ ythat' = Predict(m, PredictTestArg)
    /\ calls' = Append(calls, Call("predict", m.id, PredictTestArg, <<>>,
                                   <<>>, <<>>))
    /\ pc' = After(pc)
    /\ UNCHANGED <<curveVars, glmVars, dataVars, yrhat, printed>>

\* plt.plot(yt[:100], ...); plt.plot(ythat[:100], 'r', ...); ...; plt.show()
PlotPredicted ==
    /\ pc = "plot_pred"
    /\ calls' = calls
                \o << Call("plot", 0, <<>>, Slice(yt, 100), <<>>, <<>>),
                      Call("plot", 0, <<>>, Slice(ythat, 100), <<>>, <<>>) >>
    /\ pc' = After(pc)
    /\ UNCHANGED <<curveVars, glmVars, dataVars, outVars>>

\* The arguments of the score call.
ScoreArgs == [X |-> Xt, y |-> yt]

\* print(m.score(Xt, yt))
PrintScore ==
    /\ pc = "score"
    /\ LET a == ScoreArgs
       IN  /\ \E r \in Score(m, a.X, a.y) : printed' = Append(printed, r)
           /\ calls' = Append(calls, Call("score", m.id, a.X, a.y, <<>>, <<>>))
    /\ pc' = After(pc)
    /\ UNCHANGED <<curveVars, glmVars, dataVars, yrhat, ythat>>

Next ==
    \/ MakeGrid
    \/ SetEta
    \/ CopyGrid
    \/ SetSlope
    \/ SetIntercept
    \/ AssignGt
    \/ AssignLe
    \/ PlotCurve
    \/ MakeRegLambda
    \/ Construct
    \/ DrawBeta0
    \/ DrawBeta
    \/ DrawXr
    \/ SimulateTrain
    \/ DrawXt
    \/ SimulateTest
    \/ FitScaler
    \/ FitGLM
    \/ Select
    \/ ReadParam
    \/ PredictTrain
    \/ PredictTest
    \/ PlotPredicted
    \/ PrintScore

Spec == Init /\ [][Next]_vars

\* ------------------------------------------------------------------------
\* Properties
\* ------------------------------------------------------------------------

\* The absolute tolerance, in units of 1e-4, on the end points of the path.
Tol == 2

\* Whether sequence a is a prefix of sequence b.
IsPrefix(a, b) ==
    /\ Len(a) <= Len(b)
    /\ \A k \in 1..Len(a) : a[k] = b[k]

\* The elements of the grid and of the curve.
ZData == heap[z].data

QuData == heap[qu].data

\* The calls to routine fn, in order.
CallsTo(fn) == SelectSeq(calls, LAMBDA c : c.fn = fn)

\* The calls that take a design matrix for the fitted estimator.
EstimatorCalls ==
    SelectSeq(calls, LAMBDA c : c.fn \in {"fit", "predict", "score"})

\* C1: when both masked assignments have run, on the 100-point grid over
\* [0, 10] and with eta = 4.0, every grid point z[i] <= eta has
\* qu[i] = exp(z[i]).
C1_ExpBranch ==
    pc = "plot_curve" =>
        /\ Len(ZData) = 100 /\ ZData[1] = 0 /\ ZData[100] = 10 * S
        /\ eta = 4 * S
        /\ \A i \in 1..Len(ZData) :
               ZData[i] <= eta => QuData[i] = Exp(ZData[i])

\* C1 witness: the curve is complete and some grid point at or below eta
\* holds its exponential, which is not the copied grid value.
C1_Witness ==
    /\ pc = "plot_curve"
    /\ \E i \in 1..Len(ZData) :
           /\ ZData[i] <= eta /\ ZData[i] > S
           /\ QuData[i] = Exp(ZData[i])
           /\ QuData[i] # ZData[i]

\* C2: when both masked assignments have run, every grid point z[i] > eta
\* has qu[i] = z[i] * exp(eta) + (1 - eta) * exp(eta); slope is exp(eta) and
\* intercept is (1 - eta) * slope; and the linear expression evaluated at
\* z = eta equals exp(eta).
C2_LinearBranch ==
    pc = "plot_curve" =>
        /\ slope = Exp(eta)
        /\ intercept = Mul(S - eta, slope)
        /\ \A i \in 1..Len(ZData) :
               ZData[i] > eta =>
                   QuData[i] = Mul(ZData[i], Exp(eta)) + Mul(S - eta, Exp(eta))
        /\ Mul(eta, slope) + intercept = Exp(eta)

\* C2 witness: the curve is complete and some grid point above eta holds the
\* linear value, which differs from its exponential.
C2_Witness ==
    /\ pc = "plot_curve"
    /\ \E i \in 1..Len(ZData) :
           /\ ZData[i] > eta
           /\ QuData[i] = Mul(ZData[i], slope) + intercept
           /\ QuData[i] # Exp(ZData[i])

\* C3: each simulated target vector holds only non-negative integers and has
\* n_samples elements, the number of rows of the matrix given to simulate.
C3_SimulatedTargets ==
    /\ Ran("simulate_r") =>
           /\ Len(yr) = n_samples /\ Len(yr) = Len(Xr)
           /\ \A i \in 1..Len(yr) : yr[i] \in Nat
    /\ Ran("simulate_t") =>
           /\ Len(yt) = n_samples /\ Len(yt) = Len(Xt)
           /\ \A i \in 1..Len(yt) : yt[i] \in Nat

\* C3 witness: both vectors are simulated, with a positive count in one and a
\* zero count in the other.
C3_Witness ==
    /\ Ran("simulate_t")
    /\ \E i \in 1..Len(yr) : yr[i] > 0
    /\ \E i \in 1..Len(yt) : yt[i] = 0

\* C4: the one score printed comes from the selected model, scored with the
\* pseudo-R2 metric on (Xt, yt), and is at most 1.
C4_ScoreInRange ==
    Ran("score") =>
        /\ Len(printed) = 1
        /\ printed[1] <= S
        /\ m.score_metric = "pseudo_R2"
        /\ LET sc == CallsTo("score")
           IN  /\ Len(sc) = 1
               /\ sc[1].obj = m.id /\ sc[1].X = Xt /\ sc[1].y = yt

\* C4 witness: a score below 1 has been printed.
C4_Witness ==
    /\ Ran("score")
    /\ printed = << S \div 2 >>

\* The order the claim gives to the estimator's and the scaler's calls.
ExpectedCalls ==
    << "GLM", "simulate", "simulate", "StandardScaler.fit", "fit", "getitem",
       "predict", "predict", "score" >>

\* The calls made so far, the plotting calls left out.
PipelineCalls ==
    LET kept == SelectSeq(calls, LAMBDA c : c.fn # "plot")
    IN  [k \in 1..Len(kept) |-> kept[k].fn]

\* C5: the calls happen in the one fixed order: the curve is complete (every
\* element of qu stored) before anything else is called, then construct,
\* simulate twice, fit the scaler, fit the estimator, select, predict twice,
\* score; the score is printed exactly when score has been called.
C5_FixedOrder ==
    /\ IsPrefix(PipelineCalls, ExpectedCalls)
    /\ calls # <<>> =>
           /\ calls[1].fn = "plot"
           /\ \A i \in 1..Len(heap[qu].stores) : heap[qu].stores[i] = 1
    /\ Len(printed) = Len(CallsTo("score"))
    /\ printed # <<>> => PipelineCalls = ExpectedCalls

\* C5 witness: the script has ended having made every call of the order.
C5_Witness ==
    /\ pc = "done"
    /\ PipelineCalls = ExpectedCalls
    /\ Len(printed) = 1

\* C7: reg_lambda holds 10 strictly decreasing values, the first 0.5 and the
\* last 0.01 (to Tol units), the estimator is built on it, and the model
\* selected, the receiver of every predict and score call, is the one fitted
\* at the smallest strength of the path.
C7_SmallestStrengthSelected ==
    /\ Ran("reg_lambda") =>
           /\ Len(reg_lambda) = 10
           /\ \A k \in 1..(Len(reg_lambda) - 1) : reg_lambda[k] > reg_lambda[k + 1]
           /\ Abs(reg_lambda[1] - (S \div 2)) <= Tol
           /\ Abs(reg_lambda[Len(reg_lambda)] - (S \div 100)) <= Tol
    /\ Ran("GLM") => glm_poissonexp.reg_lambda = reg_lambda
    /\ Ran("getitem") =>
           /\ \A k \in 1..Len(reg_lambda) : m.fit_.reg_lambda <= reg_lambda[k]
           /\ m.fit_.reg_lambda = reg_lambda[Len(reg_lambda)]
           /\ \A k \in 1..Len(calls) :
                  calls[k].fn \in {"predict", "score"} => calls[k].obj = m.id

\* C7 witness: the selected model has predicted and scored, and some model of
\* the path was fitted at a larger strength.
C7_Witness ==
    /\ pc = "done"
    /\ Len(CallsTo("predict")) = 2 /\ Len(CallsTo("score")) = 1
    /\ \E k \in 1..Len(glm_poissonexp.fit_) :
           glm_poissonexp.fit_[k].reg_lambda > m.fit_.reg_lambda

\* C8: every design matrix given to fit, predict or score is an output of the
\* scaler, and the scaler is fitted once, on Xr.
C8_OnlyStandardizedInputs ==
    /\ \A k \in 1..Len(EstimatorCalls) :
           EstimatorCalls[k].X \in {Transform(scaler, Xr), Transform(scaler, Xt)}
    /\ Len(CallsTo("StandardScaler.fit")) <= 1
    /\ \A k \in 1..Len(CallsTo("StandardScaler.fit")) :
           CallsTo("StandardScaler.fit")[k].X = Xr

\* C9: the two simulate calls are made on the one estimator, whose eta is the
\* curve's eta = 4.0, with the same beta0 and beta; and beta0, beta and the
\* design matrices still hold what was passed.
C9_SameGroundTruth ==
    LET sims == CallsTo("simulate")
    IN  /\ \A k \in 1..Len(sims) :
               /\ sims[k].obj = glm_poissonexp.id
               /\ sims[k].b0 = beta0 /\ sims[k].b = beta
        /\ Ran("simulate_r") => Len(sims) >= 1 /\ sims[1].X = Xr
        /\ Ran("simulate_t") =>
               /\ Len(sims) = 2 /\ sims[2].X = Xt
               /\ sims[1].b0 = sims[2].b0 /\ sims[1].b = sims[2].b
               /\ sims[1].obj = sims[2].obj
        /\ Ran("GLM") => glm_poissonexp.eta = eta /\ eta = 4 * S

\* C9 witness: both simulate calls are made, on different matrices and with a
\* non-zero coefficient.
C9_Witness ==
    /\ Ran("simulate_t")
    /\ Len(CallsTo("simulate")) = 2
    /\ Xr # Xt
    /\ \E j \in 1..Len(beta) : beta[j][1] # 0

\* The heap as it is right after qu = deepcopy(z).
HeapAfterCopy == [heap EXCEPT ![qu] = NewArray(ZData)]

\* C10: when both masked assignments have run, each index is in exactly one
\* of the masks z > eta and z <= eta, each element of qu has been stored
\* exactly once, the two assignments made in the other order give the same
\* qu, and z is a different object than qu that still holds the grid, with no
\* store made into it.
C10_MasksPartition ==
    pc = "plot_curve" =>
        /\ \A i \in 1..Len(ZData) :
               Greater(ZData, eta)[i] # LessEq(ZData, eta)[i]
        /\ \A i \in 1..Len(QuData) : heap[qu].stores[i] = 1
        /\ StoreGt(StoreLe(HeapAfterCopy, z, qu, eta), z, qu, eta, slope,
                   intercept)[qu].data = QuData
        /\ z # qu
        /\ ZData = Linspace(0, 10 * S, NPoints)
        /\ \A i \in 1..Len(ZData) : heap[z].stores[i] = 0

\* C10 witness: the curve is complete, both masks select something, and qu
\* no longer holds the copied grid.
C10_Witness ==
    /\ pc = "plot_curve"
    /\ \E i \in 1..Len(ZData) : Greater(ZData, eta)[i]
    /\ \E i \in 1..Len(ZData) : LessEq(ZData, eta)[i]
    /\ \A i \in 1..Len(QuData) : heap[qu].stores[i] = 1 /\ QuData[i] # ZData[i]
====
